---------------------------- MODULE Spec2Model ----------------------------
(***************************************************************************)
(* A model of the event acquisition pipeline of influence-eth:             *)
(*   - ContractEvents, the adaptive block-range poller                     *)
(*     (src/influence/crew/influence.go), together with the provider it    *)
(*     queries, the chain it follows and the consumer of its channel       *)
(*     (the "events" command of src/cmd.go);                               *)
(*   - FeltFromHexString, the decoders of the flat field-element format    *)
(*     and EventParser.Parse, each applied on its own to one input;        *)
(*   - DeploymentBlock, the binary search for the deployment block.        *)
(* uint64 values are kept modulo 2^WordBits, a scaled-down machine word,   *)
(* so that the wrap-around of cursor.ToBlock + 1 and of                    *)
(* currentblock - uint64(confirmations) happens as it does in the code.    *)
(* Strings are sequences of one-character strings, so that slicing and     *)
(* hex decoding are computed as the code computes them.                    *)
(***************************************************************************)
EXTENDS Integers, Sequences, FiniteSets, TLC

----------------------------------------------------------------------------
(* Bounds of the model *)

\* width of the scaled-down unsigned word standing for uint64
WordBits == 5
\* highest block the chain reaches
MaxHead == 3
\* most events one block holds
MaxPerBlock == 1

UintMod == 2 ^ WordBits
MaxUint == UintMod - 1

\* highest cursor.Heat the model follows
MaxHeat == 2

\* the arguments the model passes to ContractEvents (the contract addresses
\* are with the strings below)
HotThresholds == {1, 2}
FromBlocks == {0, 1}
ToBlocks == {0, 1, MaxHead, MaxUint}
Confirmations == {0, 1}
BatchSizes == {1, 2}

----------------------------------------------------------------------------
(* Program constants: the defaults of the flags of the events command *)

hotInterval == 100
coldInterval == 10000

----------------------------------------------------------------------------
(* uint64 arithmetic *)

AddU(a, b) == (a + b) % UintMod
SubU(a, b) == (a + UintMod - b) % UintMod
\* uint64(confirmations), for an int that is not negative
ToUint(i) == i % UintMod

Min(a, b) == IF a <= b THEN a ELSE b

----------------------------------------------------------------------------
(* Strings, as sequences of characters *)

HexDigits == {"0", "1", "2", "3", "4", "5", "6", "7", "8", "9",
              "a", "b", "c", "d", "e", "f", "A", "B", "C", "D", "E", "F"}

\* s[:2] of Go: a run-time panic when the string is shorter than two bytes
SliceTo2Panics(s) == Len(s) < 2

HasPrefix0x(s) == Len(s) >= 2 /\ s[1] = "0" /\ s[2] = "x"

StripPrefix0x(s) == IF HasPrefix0x(s) THEN SubSeq(s, 3, Len(s)) ELSE s

\* hex.DecodeString: an error on an odd length or on a byte that is no hex digit
HexDecodeFails(s) == Len(s) % 2 # 0 \/ \E i \in 1 .. Len(s) : s[i] \notin HexDigits

\* the contract addresses the model passes: a well-formed one, one that is no
\* hex, and one of a single character
Addresses == { <<"0", "x", "1", "a">>, <<"z", "z">>, <<"a">> }

\* AllEventsFilter: "ok" with the filter, "err" with decodeErr, or "panic"
AllEventsFilter(from, to, address) ==
    IF address # << >> /\ SliceTo2Panics(address)
    THEN [outcome |-> "panic", FromBlock |-> from, ToBlock |-> to]
    ELSE IF address # << >> /\ HexDecodeFails(StripPrefix0x(address))
    THEN [outcome |-> "err", FromBlock |-> from, ToBlock |-> to]
    ELSE [outcome |-> "ok", FromBlock |-> from, ToBlock |-> to]

----------------------------------------------------------------------------
(* State *)

VARIABLES
    \* the arguments of ContractEvents
    contractAddress, hotThreshold, fromBlock, toBlock, confirmations, batchSize,
    \* the locals of ContractEvents
    cursor,       \* CrawlCursor
    eventsChunk,  \* the page being sent on outChan
    sent,         \* how many events of eventsChunk have been sent
    pc,           \* "select", "send", "returned", "panicked"
    ret,          \* the value ContractEvents returned
    \* the channel, the context and the command that started ContractEvents
    closed,       \* how often outChan has been closed
    cancelled,    \* ctx.Done() is closed
    cmdPc,        \* "range", "returned", "crashed", "stopped"
    cmdErr,       \* what RunE returned
    \* the chain behind the provider: ledger[b] events in block b, head = Len(ledger)
    ledger,
    \* history
    emitted,      \* the set of events received from outChan
    lastBlock,    \* the block of the event received last
    rangeOpen,    \* a range has been queried and not yet advanced over
    rangeQueries, \* the event queries issued for the latest range, in order
    rangePages,   \* the pages the provider returned for the latest range
    rangeEmitted, \* the events received for the latest range, in order
    covered,      \* the blocks of all ranges advanced over
    streak,       \* consecutive advances whose last page held an event
    stepCalls,    \* the provider calls of the latest step
    lastStep,     \* what the latest step of ContractEvents did
    \* FeltFromHexString
    hexString,    \* its argument
    derivedFelt,  \* what it produced
    \* the decoders and EventParser.Parse
    rawEvent,     \* the RawEvent at hand: PrimaryKey and Parameters
    applied,      \* the function applied to it
    result,       \* what the function produced
    \* DeploymentBlock
    chainHead,    \* the block number the search starts from as its upper end
    deployedAt,   \* the first block at which the contract has code
    lo, hi,       \* the ends of the interval still searched
    probes,       \* the blocks probed so far, in order
    searchPc,     \* "loop", "done"
    \* the parse command
    ifp,          \* the lines of the input file, each a record as JSON
    ofp,          \* the records written to the output file, in order
    scanned,      \* the lines the scanner has handed out
    parsePc,      \* "scan", "returned", "panicked"
    parseRet,     \* what RunE returned
    \* the loop of ContractEvents over one page of provider events
    eventsPage,   \* eventsChunk.Events with their key and data lists
    outChan,      \* the RawEvents sent on the channel, in order
    emitPc        \* "range", "done", "panicked"

args == <<contractAddress, hotThreshold, fromBlock, toBlock, confirmations, batchSize>>
locals == <<cursor, eventsChunk, sent, pc, ret>>
env == <<closed, cancelled, cmdPc, cmdErr, ledger>>
range == <<rangeOpen, rangeQueries, rangePages, rangeEmitted, covered, streak>>
hist == <<emitted, lastBlock, range, stepCalls, lastStep>>
hexVars == <<hexString, derivedFelt>>
decodeVars == <<rawEvent, applied, result>>
searchVars == <<chainHead, deployedAt, lo, hi, probes, searchPc>>
\* the state of the functions that are applied on their own
parseVars == <<ifp, ofp, scanned, parsePc, parseRet>>
emitVars == <<eventsPage, outChan, emitPc>>
pure == <<hexVars, decodeVars, searchVars, parseVars, emitVars>>
vars == <<args, locals, env, hist, pure>>

EmptyToken == << >>
NoChunk == [Events |-> << >>, ContinuationToken |-> EmptyToken]

head == Len(ledger)

----------------------------------------------------------------------------
(* The provider *)

RECURSIVE BlockEvents(_, _)
\* the events of block b, in log order: <<b, 1>>, ..., <<b, n>>
BlockEvents(b, n) == IF n = 0 THEN << >> ELSE Append(BlockEvents(b, n - 1), <<b, n>>)

RECURSIVE EventsIn(_, _, _)
\* the events of the blocks from .. to that exist, in ledger order
EventsIn(chain, from, to) ==
    IF from > to \/ from > Len(chain) THEN << >>
    ELSE (IF from >= 1 THEN BlockEvents(from, chain[from]) ELSE << >>)
         \o EventsIn(chain, from + 1, to)

\* provider.Events: one page of at most chunk events of the range, from the
\* offset the token stands for; a token is returned when events remain, and
\* (eager) may be returned after a full page that happened to be the last
ProviderEvents(chain, from, to, token, chunk, eager) ==
    LET all == EventsIn(chain, from, to)
        off == IF token = EmptyToken THEN 0 ELSE Min(token[1], Len(all))
        n == Min(chunk, Len(all) - off)
    IN  [Events |-> SubSeq(all, off + 1, off + n),
         ContinuationToken |->
            IF off + n < Len(all) \/ (eager /\ n = chunk)
            THEN <<off + n>> ELSE EmptyToken]

----------------------------------------------------------------------------
(* ContractEvents: the steps of one iteration on the cursor *)

\* ResolveToBlock with the chain head itself as the upper bound
ResolveToBlockAtHead(c, currentblock, conf) ==
    IF c.ToBlock = 0
    THEN [c EXCEPT !.ToBlock = currentblock]
    ELSE c

\* lines 144-150: an open upper bound is resolved from the chain head
ResolveToBlock(c, currentblock, conf) ==
    IF c.ToBlock = 0
    THEN [c EXCEPT !.ToBlock = SubU(currentblock, ToUint(conf))]
    ELSE c

\* the cold check with < in place of <=
IsColdStrict(c) == c.ToBlock < c.FromBlock

\* line 152
IsCold(c) == c.ToBlock <= c.FromBlock

\* lines 153-154: the cold branch leaves the resolved bound in the cursor
GoCold(c) == [c EXCEPT !.Interval = coldInterval]

\* AfterPage with the returned continuation token not stored in the cursor
AfterPageTokenDropped(c, chunk, to, threshold) ==
    IF chunk.ContinuationToken # EmptyToken
    THEN [c EXCEPT !.Interval = hotInterval]
    ELSE LET adv == [c EXCEPT !.FromBlock = AddU(c.ToBlock, 1),
                              !.ToBlock = to,
                              !.ContinuationToken = EmptyToken]
         IN  IF Len(chunk.Events) > 0
             THEN [adv EXCEPT !.Heat = c.Heat + 1,
                              !.Interval = IF c.Heat + 1 >= threshold
                                           THEN hotInterval ELSE c.Interval]
             ELSE [adv EXCEPT !.Heat = 0, !.Interval = coldInterval]

\* AfterPage with the heat compared by > to the threshold
AfterPageStrictThreshold(c, chunk, to, threshold) ==
    IF chunk.ContinuationToken # EmptyToken
    THEN [c EXCEPT !.ContinuationToken = chunk.ContinuationToken,
                   !.Interval = hotInterval]
    ELSE LET adv == [c EXCEPT !.FromBlock = AddU(c.ToBlock, 1),
                              !.ToBlock = to,
                              !.ContinuationToken = EmptyToken]
         IN  IF Len(chunk.Events) > 0
             THEN [adv EXCEPT !.Heat = c.Heat + 1,
                              !.Interval = IF c.Heat + 1 > threshold
                                           THEN hotInterval ELSE c.Interval]
             ELSE [adv EXCEPT !.Heat = 0, !.Interval = coldInterval]

\* AfterPage with the interval left alone when more pages follow
AfterPageKeepingInterval(c, chunk, to, threshold) ==
    IF chunk.ContinuationToken # EmptyToken
    THEN [c EXCEPT !.ContinuationToken = chunk.ContinuationToken]
    ELSE LET adv == [c EXCEPT !.FromBlock = AddU(c.ToBlock, 1),
                              !.ToBlock = to,
                              !.ContinuationToken = EmptyToken]
         IN  IF Len(chunk.Events) > 0
             THEN [adv EXCEPT !.Heat = c.Heat + 1,
                              !.Interval = IF c.Heat + 1 >= threshold
                                           THEN hotInterval ELSE c.Interval]
             ELSE [adv EXCEPT !.Heat = 0, !.Interval = coldInterval]

\* lines 195-211: the cursor after the page chunk has been sent
AfterPage(c, chunk, to, threshold) ==
    IF chunk.ContinuationToken # EmptyToken
    THEN [c EXCEPT !.ContinuationToken = chunk.ContinuationToken,
                   !.Interval = hotInterval]
    ELSE LET adv == [c EXCEPT !.FromBlock = AddU(c.ToBlock, 1),
                              !.ToBlock = to,
                              !.ContinuationToken = EmptyToken]
         IN  IF Len(chunk.Events) > 0
             THEN [adv EXCEPT !.Heat = c.Heat + 1,
                              !.Interval = IF c.Heat + 1 >= threshold
                                           THEN hotInterval ELSE c.Interval]
             ELSE [adv EXCEPT !.Heat = 0, !.Interval = coldInterval]

\* SelectCase with ctx.Done() never looked at
SelectCaseTimerOnly(isCancelled) == "timer"

\* lines 139-142: the case the select takes; an interval is positive, so a
\* closed ctx.Done() is ready before the timer
SelectCase(isCancelled) == IF isCancelled THEN "done" ELSE "timer"

\* lines 143-179: one iteration up to the page of events, as the outcome
\*   kind: "blockErr", "cold", "coldEnd", "filterPanic", "filterErr",
\*         "eventsErr" or "fetch"
\* with the cursor, the provider calls made and the page fetched
Iterate(c, blockFails, eventsFails, eager) ==
    IF c.ToBlock = 0 /\ blockFails
    THEN [kind |-> "blockErr", cursor |-> c, calls |-> {"BlockNumber"},
          chunk |-> NoChunk]
    ELSE
    LET r == ResolveToBlock(c, head, confirmations)
        calls == IF c.ToBlock = 0 THEN {"BlockNumber"} ELSE {}
        filter == AllEventsFilter(r.FromBlock, r.ToBlock, contractAddress)
    IN  IF IsCold(r)
        THEN [kind |-> IF toBlock = 0 THEN "cold" ELSE "coldEnd",
              cursor |-> GoCold(r), calls |-> calls, chunk |-> NoChunk]
        ELSE IF filter.outcome = "panic"
        THEN [kind |-> "filterPanic", cursor |-> r, calls |-> calls, chunk |-> NoChunk]
        ELSE IF filter.outcome = "err"
        THEN [kind |-> "filterErr", cursor |-> r, calls |-> calls, chunk |-> NoChunk]
        ELSE IF eventsFails
        THEN [kind |-> "eventsErr", cursor |-> r, calls |-> calls \cup {"Events"},
              chunk |-> NoChunk]
        ELSE [kind |-> "fetch", cursor |-> r, calls |-> calls \cup {"Events"},
              chunk |-> ProviderEvents(ledger, filter.FromBlock, filter.ToBlock,
                                       r.ContinuationToken, batchSize, eager)]

\* Returns with a failed event query tried again at the next iteration
ReturnsRetryingEvents(kind) == kind \in {"blockErr", "coldEnd", "filterErr"}

\* the outcomes on which ContractEvents returns, and what it returns
\* (lines 147, 162, 168, 178)
Returns(kind) == kind \in {"blockErr", "coldEnd", "filterErr", "eventsErr"}
ReturnValue(kind) == IF kind = "coldEnd" THEN "nil" ELSE kind

----------------------------------------------------------------------------
(* The functions that are applied on their own are at rest while the crawl
   runs, and the crawl is at rest while one of them is applied *)

NoResult == [outcome |-> "none"]

HexIdle ==
    /\ hexString = << >>
    /\ derivedFelt = NoResult

DecodeIdle ==
    /\ rawEvent = [PrimaryKey |-> 0, Parameters |-> << >>]
    /\ applied = [fn |-> "none", item |-> "none"]
    /\ result = NoResult

ParseIdle ==
    /\ ifp = << >>
    /\ ofp = << >>
    /\ scanned = 0
    /\ parsePc = "returned"
    /\ parseRet = "nil"

EmitIdle ==
    /\ eventsPage = << >>
    /\ outChan = << >>
    /\ emitPc = "done"

SearchIdle ==
    /\ chainHead = 0
    /\ deployedAt = 0
    /\ lo = 0
    /\ hi = 0
    /\ probes = << >>
    /\ searchPc = "done"

CrawlIdle ==
    /\ contractAddress = << >>
    /\ hotThreshold = 1
    /\ fromBlock = 0
    /\ toBlock = 0
    /\ confirmations = 0
    /\ batchSize = 1
    /\ cursor = [FromBlock |-> 0, ToBlock |-> 0,
                 ContinuationToken |-> EmptyToken, Interval |-> hotInterval,
                 Heat |-> 0]
    /\ eventsChunk = NoChunk
    /\ sent = 0
    /\ pc = "returned"
    /\ ret = "none"
    /\ closed = 0
    /\ cancelled = FALSE
    /\ cmdPc = "returned"
    /\ cmdErr = "none"
    /\ ledger = << >>
    /\ emitted = {}
    /\ lastBlock = 0
    /\ rangeOpen = FALSE
    /\ rangeQueries = << >>
    /\ rangePages = << >>
    /\ rangeEmitted = << >>
    /\ covered = {}
    /\ streak = 0
    /\ stepCalls = {}
    /\ lastStep = "start"

crawl == <<args, locals, env, hist>>

----------------------------------------------------------------------------
(* Initial state: ContractEvents has been started by the events command *)

Init ==
    /\ contractAddress \in Addresses
    /\ hotThreshold \in HotThresholds
    /\ fromBlock \in FromBlocks
    /\ toBlock \in ToBlocks
    /\ confirmations \in Confirmations
    /\ batchSize \in BatchSizes
    /\ cursor = [FromBlock |-> fromBlock, ToBlock |-> toBlock,
                 ContinuationToken |-> EmptyToken, Interval |-> hotInterval,
                 Heat |-> 0]
    /\ eventsChunk = NoChunk
    /\ sent = 0
    /\ pc = "select"
    /\ ret = "none"
    /\ closed = 0
    /\ cancelled = FALSE
    /\ cmdPc = "range"
    /\ cmdErr = "none"
    /\ ledger = << >>
    /\ emitted = {}
    /\ lastBlock = 0
    /\ rangeOpen = FALSE
    /\ rangeQueries = << >>
    /\ rangePages = << >>
    /\ rangeEmitted = << >>
    /\ covered = {}
    /\ streak = 0
    /\ stepCalls = {}
    /\ lastStep = "start"
    /\ HexIdle
    /\ DecodeIdle
    /\ SearchIdle
    /\ ParseIdle
    /\ EmitIdle

----------------------------------------------------------------------------
(* The environment *)

\* the chain grows by one block holding n events
HeadRises ==
    /\ head < MaxHead
    /\ \E n \in 0 .. MaxPerBlock : ledger' = Append(ledger, n)
    /\ UNCHANGED <<pure, args, locals, closed, cancelled, cmdPc, cmdErr, hist>>

\* the context is cancelled by the caller of ContractEvents
Cancel ==
    /\ ~cancelled
    /\ pc \in {"select", "send"}
    /\ cancelled' = TRUE
    /\ UNCHANGED <<pure, args, locals, closed, cmdPc, cmdErr, ledger, hist>>

----------------------------------------------------------------------------
(* ContractEvents *)

\* a return that leaves outChan open
ReturnKeepingOpen(value) ==
    /\ pc' = "returned"
    /\ ret' = value
    /\ closed' = closed

\* return value; the deferred close(outChan) runs
Return(value) ==
    /\ pc' = "returned"
    /\ ret' = value
    /\ closed' = closed + 1

\* lines 195-211, once the page chunk is sent
FinishPage(c, chunk) ==
    /\ cursor' = AfterPage(c, chunk, toBlock, hotThreshold)
    /\ eventsChunk' = NoChunk
    /\ sent' = 0
    /\ pc' = "select"
    /\ IF chunk.ContinuationToken # EmptyToken
       THEN /\ rangeOpen' = TRUE
            /\ lastStep' = "page"
            /\ UNCHANGED <<covered, streak>>
       ELSE /\ rangeOpen' = FALSE
            /\ lastStep' = "advance"
            /\ covered' = covered \cup (c.FromBlock .. c.ToBlock)
            /\ streak' = IF Len(chunk.Events) > 0 THEN streak + 1 ELSE 0

\* line 140-141: the context is done
SelectDone ==
    /\ pc = "select"
    /\ SelectCase(cancelled) = "done"
    /\ Return("nil")
    /\ stepCalls' = {}
    /\ lastStep' = "done"
    /\ UNCHANGED <<pure, args, cursor, eventsChunk, sent, cancelled, cmdPc, cmdErr, ledger,
                   emitted, lastBlock, range>>

\* an iteration that ends in a return: a provider or filter error, or a
\* fixed range that is cold
PollReturn ==
    /\ pc = "select"
    /\ SelectCase(cancelled) = "timer"
    /\ \E blockFails, eventsFails \in BOOLEAN :
         LET it == Iterate(cursor, blockFails, eventsFails, FALSE)
         IN  /\ it.kind \notin {"fetch", "filterPanic"}
             /\ Returns(it.kind)
             /\ cursor' = it.cursor
             /\ Return(ReturnValue(it.kind))
             /\ stepCalls' = it.calls
             /\ lastStep' = it.kind
    /\ UNCHANGED <<pure, args, eventsChunk, sent, cancelled, cmdPc, cmdErr, ledger,
                   emitted, lastBlock, range>>

\* an iteration that fetches nothing and does not return (a continuous crawl
\* that is cold): break out of the select, and wait again
PollCold ==
    /\ pc = "select"
    /\ SelectCase(cancelled) = "timer"
    /\ \E blockFails, eventsFails \in BOOLEAN :
         LET it == Iterate(cursor, blockFails, eventsFails, FALSE)
         IN  /\ it.kind \notin {"fetch", "filterPanic"}
             /\ ~Returns(it.kind)
             /\ cursor' = it.cursor
             /\ stepCalls' = it.calls
             /\ lastStep' = it.kind
    /\ UNCHANGED <<pure, args, eventsChunk, sent, pc, ret, env, emitted, lastBlock, range>>

\* contractAddress[:2] on a one-character address: the goroutine panics, the
\* deferred close runs and the process dies
PollPanic ==
    /\ pc = "select"
    /\ SelectCase(cancelled) = "timer"
    /\ \E blockFails \in BOOLEAN :
         LET it == Iterate(cursor, blockFails, FALSE, FALSE)
         IN  /\ it.kind = "filterPanic"
             /\ cursor' = it.cursor
             /\ stepCalls' = it.calls
             /\ lastStep' = it.kind
    /\ pc' = "panicked"
    /\ closed' = closed + 1
    /\ cmdPc' = "crashed"
    /\ UNCHANGED <<pure, args, eventsChunk, sent, ret, cancelled, cmdErr, ledger,
                   emitted, lastBlock, range>>

\* an iteration that fetches a page: the page is sent event by event, and an
\* empty page is followed by the cursor update at once
PollFetch ==
    /\ pc = "select"
    /\ SelectCase(cancelled) = "timer"
    /\ cursor.Heat < MaxHeat
    /\ \E blockFails, eager \in BOOLEAN :
         LET it == Iterate(cursor, blockFails, FALSE, eager)
             query == [FromBlock |-> it.cursor.FromBlock, ToBlock |-> it.cursor.ToBlock,
                       ContinuationToken |-> it.cursor.ContinuationToken]
         IN  /\ it.kind = "fetch"
             /\ stepCalls' = it.calls
             /\ rangeQueries' = IF rangeOpen THEN Append(rangeQueries, query)
                                ELSE <<query>>
             /\ rangePages' = IF rangeOpen THEN Append(rangePages, it.chunk)
                              ELSE <<it.chunk>>
             /\ rangeEmitted' = IF rangeOpen THEN rangeEmitted ELSE << >>
             /\ IF it.chunk.Events = << >>
                THEN FinishPage(it.cursor, it.chunk)
                ELSE /\ cursor' = it.cursor
                     /\ eventsChunk' = it.chunk
                     /\ sent' = 0
                     /\ pc' = "send"
                     /\ rangeOpen' = TRUE
                     /\ lastStep' = "fetch"
                     /\ UNCHANGED <<covered, streak>>
    /\ UNCHANGED <<pure, args, ret, env, emitted, lastBlock>>

\* line 192: the consumer receives the next event of the page from the
\* unbuffered channel; after the last one the cursor is updated
Send ==
    /\ pc = "send"
    /\ cmdPc = "range"
    /\ LET event == eventsChunk.Events[sent + 1]
       IN  /\ emitted' = emitted \cup {event}
           /\ lastBlock' = event[1]
           /\ rangeEmitted' = Append(rangeEmitted, event)
    /\ IF sent + 1 = Len(eventsChunk.Events)
       THEN FinishPage(cursor, eventsChunk)
       ELSE /\ sent' = sent + 1
            /\ lastStep' = "send"
            /\ UNCHANGED <<cursor, eventsChunk, pc, rangeOpen, covered, streak>>
    /\ stepCalls' = {}
    /\ UNCHANGED <<pure, args, ret, env, rangeQueries, rangePages>>

----------------------------------------------------------------------------
(* The events command, src/cmd.go *)

\* lines 154-163: the range over eventsChan ends when the channel is closed,
\* and RunE returns nil
CmdReturn ==
    /\ cmdPc = "range"
    /\ pc = "returned"
    /\ closed >= 1
    /\ cmdPc' = "returned"
    /\ cmdErr' = "nil"
    /\ UNCHANGED <<pure, args, locals, closed, cancelled, ledger, hist>>

----------------------------------------------------------------------------

Next ==
    \/ HeadRises
    \/ Cancel
    \/ SelectDone
    \/ PollReturn
    \/ PollCold
    \/ PollPanic
    \/ PollFetch
    \/ Send
    \/ CmdReturn

Spec == Init /\ [][Next]_vars

\* the timer of the select fires and the consumer of the events command
\* keeps receiving: an iteration that can run does run, a send completes
PollerNext == SelectDone \/ PollReturn \/ PollCold \/ PollPanic \/ PollFetch

FairSpec == Spec /\ WF_vars(PollerNext) /\ WF_vars(Send)

\* line 192: ContractEvents sends on the channel its caller made; whoever
\* holds the other end may stop receiving while the crawl is running
ConsumerStops ==
    /\ cmdPc = "range"
    /\ pc \in {"select", "send"}
    /\ cmdPc' = "stopped"
    /\ UNCHANGED <<pure, args, locals, closed, cancelled, cmdErr, ledger, hist>>

ConsumerNext == Next \/ ConsumerStops

\* ContractEvents with any consumer: the poller runs when it can, and a send
\* completes while the consumer is receiving
ConsumerSpec ==
    Init /\ [][ConsumerNext]_vars /\ WF_vars(PollerNext) /\ WF_vars(Send)

----------------------------------------------------------------------------
(* FeltFromHexString, applied to one string *)

\* longest string given to FeltFromHexString
MaxHexLen == 4
\* the characters of those strings: hex digits, the x of the prefix, and a
\* character that is no hex digit
HexAlphabet == {"0", "x", "a", "g"}
HexStrings == UNION { [1 .. n -> HexAlphabet] : n \in 0 .. MaxHexLen }

HexDigitValue(c) ==
    CASE c = "0" -> 0 [] c = "1" -> 1 [] c = "2" -> 2 [] c = "3" -> 3
      [] c = "4" -> 4 [] c = "5" -> 5 [] c = "6" -> 6 [] c = "7" -> 7
      [] c = "8" -> 8 [] c = "9" -> 9
      [] c \in {"a", "A"} -> 10 [] c \in {"b", "B"} -> 11
      [] c \in {"c", "C"} -> 12 [] c \in {"d", "D"} -> 13
      [] c \in {"e", "E"} -> 14 [] c \in {"f", "F"} -> 15

RECURSIVE HexValue(_)
\* hex.DecodeString and SetBytes: the big-endian number the digits spell
HexValue(s) ==
    IF s = << >> THEN 0
    ELSE 16 * HexValue(SubSeq(s, 1, Len(s) - 1)) + HexDigitValue(s[Len(s)])

\* hexString[:2] panics on a string shorter than two characters: unlike
\* AllEventsFilter, the function does not set the empty string aside
FeltFromHexString(s) ==
    IF SliceTo2Panics(s) THEN [outcome |-> "panic", value |-> 0]
    ELSE IF HexDecodeFails(StripPrefix0x(s)) THEN [outcome |-> "err", value |-> 0]
    ELSE [outcome |-> "ok", value |-> HexValue(StripPrefix0x(s))]

HexInit ==
    /\ hexString \in HexStrings
    /\ derivedFelt = NoResult
    /\ DecodeIdle
    /\ SearchIdle
    /\ ParseIdle
    /\ EmitIdle
    /\ CrawlIdle

CallFeltFromHexString ==
    /\ derivedFelt = NoResult
    /\ derivedFelt' = FeltFromHexString(hexString)
    /\ UNCHANGED <<hexString, decodeVars, searchVars, parseVars, emitVars, crawl>>

HexNext == CallFeltFromHexString

HexSpec == HexInit /\ [][HexNext]_vars

----------------------------------------------------------------------------
(* Field elements and the values decoded from them.  A field element is the
   number it holds; Uint64() yields its low word. *)

\* int is as wide as uint64: int(x) of a uint64 above MaxInt is negative
MaxInt == 2 ^ (WordBits - 1) - 1
ToInt(u) == IF u > MaxInt THEN u - UintMod ELSE u
\* a + b in int, wrapping
AddInt(a, b) == ToInt((a + b + UintMod) % UintMod)

FeltUint64(f) == f % UintMod
\* Felt.String(): the hex text of the element
FeltString(f) == <<"0x", f>>
\* Felt.BigInt(): a big.Int holding the element
FeltBigInt(f) == <<"big", f>>
EmptyString == << >>
NilBigInt == <<"nil">>
NilSlice == << >>

ErrIncorrectParameters == "incorrect parameters"
ErrIncorrectEventKey == "incorrect event key"

\* what a decoder returns: (value, consumed, err)
Ret(v, c, e) == [kind |-> "return", value |-> v, consumed |-> c, err |-> e]
\* a run-time panic instead of a return
Panics(reason) == [kind |-> "panic", value |-> NilSlice, consumed |-> 0, err |-> reason]

\* parameters[i:], for i within the slice
SliceFrom(parameters, i) == SubSeq(parameters, i + 1, Len(parameters))

ParseUint64(parameters) ==
    IF Len(parameters) < 1 THEN Ret(0, 0, ErrIncorrectParameters)
    ELSE Ret(FeltUint64(parameters[1]), 1, "nil")

ParseBigInt(parameters) ==
    IF Len(parameters) < 1 THEN Ret(NilBigInt, 0, ErrIncorrectParameters)
    ELSE Ret(FeltBigInt(parameters[1]), 1, "nil")

ParseString(parameters) ==
    IF Len(parameters) < 1 THEN Ret(EmptyString, 0, ErrIncorrectParameters)
    ELSE Ret(FeltString(parameters[1]), 1, "nil")

ParseCore_Bool(parameters) ==
    IF Len(parameters) < 1 THEN Ret(0, 0, ErrIncorrectParameters)
    ELSE Ret(FeltUint64(parameters[1]), 1, "nil")

----------------------------------------------------------------------------
(* The event struct decoders.  The three generated functions have one shape:
   three fields decoded in turn from parameters[currentIndex:], each failure
   returned with the struct as filled so far and a consumed count of 0, and
   at the end "return result, currentIndex + 1, nil". *)

\* the scalar decoder of a field, by name
ParseField(fn, parameters) ==
    CASE fn = "ParseString" -> ParseString(parameters)
      [] fn = "ParseBigInt" -> ParseBigInt(parameters)
      [] fn = "ParseCore_Bool" -> ParseCore_Bool(parameters)

ParseFields(zero, n0, p0, n1, p1, n2, p2, parameters) ==
    LET value0 == ParseField(p0, SliceFrom(parameters, 0))
    IN  IF value0.err # "nil" THEN Ret(zero, 0, value0.err)
        ELSE
        LET result0 == [zero EXCEPT ![n0] = value0.value]
            index0 == value0.consumed
            value1 == ParseField(p1, SliceFrom(parameters, index0))
        IN  IF value1.err # "nil" THEN Ret(result0, 0, value1.err)
            ELSE
            LET result1 == [result0 EXCEPT ![n1] = value1.value]
                index1 == index0 + value1.consumed
                value2 == ParseField(p2, SliceFrom(parameters, index1))
            IN  IF value2.err # "nil" THEN Ret(result1, 0, value2.err)
                ELSE Ret([result1 EXCEPT ![n2] = value2.value],
                         index1 + value2.consumed + 1, "nil")

ParseInfluence_Contracts_Crew_Crew_Transfer(parameters) ==
    ParseFields([From |-> EmptyString, To |-> EmptyString, TokenId |-> NilBigInt],
                "From", "ParseString", "To", "ParseString", "TokenId", "ParseBigInt",
                parameters)

ParseInfluence_Contracts_Crew_Crew_Approval(parameters) ==
    ParseFields([Owner |-> EmptyString, Approved |-> EmptyString, TokenId |-> NilBigInt],
                "Owner", "ParseString", "Approved", "ParseString", "TokenId", "ParseBigInt",
                parameters)

ParseInfluence_Contracts_Crew_Crew_ApprovalForAll(parameters) ==
    ParseFields([Owner |-> EmptyString, Operator |-> EmptyString, Approved |-> 0],
                "Owner", "ParseString", "Operator", "ParseString",
                "Approved", "ParseCore_Bool",
                parameters)

----------------------------------------------------------------------------
(* ParseArray.  A decoder is named by a record: fn its function and, for
   ParseArray, item the decoder of the items. *)

Scalar(fn) == [fn |-> fn, item |-> "none"]
ArrayOf(item) == [fn |-> "ParseArray", item |-> item]

RECURSIVE Decode(_, _)
RECURSIVE ParseArrayLoop(_, _, _, _, _, _)

\* lines 60-69: the loop over the items, i items parsed so far
ParseArrayLoop(item, parameters, arrayLength, i, currentIndex, parsedSoFar) ==
    IF i >= arrayLength THEN Ret(parsedSoFar, currentIndex, "nil")
    ELSE IF currentIndex > Len(parameters)
    THEN Panics("slice bounds out of range")
    ELSE LET parsed == Decode(item, SliceFrom(parameters, currentIndex))
         IN  IF parsed.kind = "panic" THEN parsed
             ELSE IF parsed.err # "nil" THEN Ret(NilSlice, 0, parsed.err)
             ELSE ParseArrayLoop(item, parameters, arrayLength, i + 1,
                                 currentIndex + parsed.consumed,
                                 Append(parsedSoFar, parsed.value))

\* lines 47-58, then the loop.  make([]T, arrayLength) panics on a negative
\* length, and on MaxInt, whose arrayLength+1 wraps and passes the check
ParseArray(item, parameters) ==
    IF Len(parameters) < 1 THEN Ret(NilSlice, 0, ErrIncorrectParameters)
    ELSE LET arrayLengthRaw == FeltUint64(parameters[1])
             arrayLength == ToInt(arrayLengthRaw)
         IN  IF Len(parameters) < AddInt(arrayLength, 1)
             THEN Ret(NilSlice, 0, ErrIncorrectParameters)
             ELSE IF arrayLength < 0 \/ arrayLength = MaxInt
             THEN Panics("makeslice: len out of range")
             ELSE ParseArrayLoop(item, parameters, arrayLength, 0, 1, << >>)

\* ParseCore_Array_Span_core_Felt252: one field, ParseArray[string](ParseString)
ParseCore_Array_Span_core_Felt252(parameters) ==
    LET value0 == ParseArray(Scalar("ParseString"), SliceFrom(parameters, 0))
    IN  IF value0.kind = "panic" THEN value0
        ELSE IF value0.err # "nil" THEN Ret([Snapshot |-> NilSlice], 0, value0.err)
        ELSE Ret([Snapshot |-> value0.value], value0.consumed, "nil")

Decode(d, parameters) ==
    CASE d.fn = "ParseUint64" -> ParseUint64(parameters)
      [] d.fn = "ParseBigInt" -> ParseBigInt(parameters)
      [] d.fn = "ParseString" -> ParseString(parameters)
      [] d.fn = "ParseCore_Bool" -> ParseCore_Bool(parameters)
      [] d.fn = "ParseInfluence_Contracts_Crew_Crew_Transfer" ->
            ParseInfluence_Contracts_Crew_Crew_Transfer(parameters)
      [] d.fn = "ParseInfluence_Contracts_Crew_Crew_Approval" ->
            ParseInfluence_Contracts_Crew_Crew_Approval(parameters)
      [] d.fn = "ParseInfluence_Contracts_Crew_Crew_ApprovalForAll" ->
            ParseInfluence_Contracts_Crew_Crew_ApprovalForAll(parameters)
      [] d.fn = "ParseCore_Array_Span_core_Felt252" ->
            ParseCore_Array_Span_core_Felt252(parameters)
      [] d.fn = "ParseArray" -> ParseArray(d.item, parameters)

----------------------------------------------------------------------------
(* EventParser.Parse.  A signature felt is named by the hex text of its hash;
   a RawEvent read from a line without a primary key holds a nil pointer. *)

Event_Influence_Contracts_Crew_Crew_Approval == "influence::contracts::crew::Crew::Approval"
Event_Influence_Contracts_Crew_Crew_ApprovalForAll == "influence::contracts::crew::Crew::ApprovalForAll"
Event_Influence_Contracts_Crew_Crew_Transfer == "influence::contracts::crew::Crew::Transfer"
EVENT_UNKNOWN == "UNKNOWN"

Event_Influence_Contracts_Crew_Crew_Approval_Felt ==
    "0134692b230b9e1ffa39098904722134159652b09c5bc41d88d6698779d228ff"
Event_Influence_Contracts_Crew_Crew_ApprovalForAll_Felt ==
    "06ad9ed7b6318f1bcffefe19df9aeb40d22c36bed567e1925a5ccde0536edd"
Event_Influence_Contracts_Crew_Crew_Transfer_Felt ==
    "99cd8bde557814842a3121e8ddfd433a539b8c9f14bf31ebf108d12e6196e9"
SignatureFelts == {Event_Influence_Contracts_Crew_Crew_Approval_Felt,
                   Event_Influence_Contracts_Crew_Crew_ApprovalForAll_Felt,
                   Event_Influence_Contracts_Crew_Crew_Transfer_Felt}
\* a felt that is no signature, and the nil pointer
OtherFelt == "01"
NilFelt == "nil"

\* what Parse returns: (ParsedEvent, error), and the decoders it invoked
ParseRet(name, ev, e, fns) ==
    [kind |-> "return", value |-> [Name |-> name, Event |-> ev], err |-> e,
     invoked |-> fns]

\* a failed decode reported under the name of the matched event
ParseMatchedNamingFailure(ev, name, fn, parsed) ==
    ParseRet(name, parsed.value, parsed.err, {fn})

\* lines 307-311 (and 314-318, 321-325): the decoder of the matched event
\* has run on event.Parameters
ParseMatched(ev, name, fn, parsed) ==
    IF parsed.err # "nil" THEN ParseRet(EVENT_UNKNOWN, ev, parsed.err, {fn})
    ELSE ParseRet(name, parsed.value, "nil", {fn})

\* an unknown key reported as an error
ParseUnmatchedAsError(ev) == ParseRet(EVENT_UNKNOWN, ev, ErrIncorrectEventKey, {})

\* line 327: no signature matched
ParseUnmatched(ev) == ParseRet(EVENT_UNKNOWN, ev, "nil", {})

\* Parse with the ApprovalForAll branch dispatching to the Approval decoder
ParseApprovalTwice(ev) ==
    IF ev.PrimaryKey = NilFelt
    THEN [kind |-> "panic", value |-> [Name |-> EVENT_UNKNOWN, Event |-> ev],
          err |-> "nil pointer dereference", invoked |-> {}]
    ELSE IF Event_Influence_Contracts_Crew_Crew_Approval_Felt = ev.PrimaryKey
    THEN ParseMatched(ev, Event_Influence_Contracts_Crew_Crew_Approval,
                      "ParseInfluence_Contracts_Crew_Crew_Approval",
                      ParseInfluence_Contracts_Crew_Crew_Approval(ev.Parameters))
    ELSE IF Event_Influence_Contracts_Crew_Crew_ApprovalForAll_Felt = ev.PrimaryKey
    THEN ParseMatched(ev, Event_Influence_Contracts_Crew_Crew_Approval,
                      "ParseInfluence_Contracts_Crew_Crew_Approval",
                      ParseInfluence_Contracts_Crew_Crew_Approval(ev.Parameters))
    ELSE IF Event_Influence_Contracts_Crew_Crew_Transfer_Felt = ev.PrimaryKey
    THEN ParseMatched(ev, Event_Influence_Contracts_Crew_Crew_Transfer,
                      "ParseInfluence_Contracts_Crew_Crew_Transfer",
                      ParseInfluence_Contracts_Crew_Crew_Transfer(ev.Parameters))
    ELSE ParseUnmatched(ev)

\* Felt.Cmp dereferences its argument: a nil PrimaryKey panics
Parse(ev) ==
    IF ev.PrimaryKey = NilFelt
    THEN [kind |-> "panic", value |-> [Name |-> EVENT_UNKNOWN, Event |-> ev],
          err |-> "nil pointer dereference", invoked |-> {}]
    ELSE IF Event_Influence_Contracts_Crew_Crew_Approval_Felt = ev.PrimaryKey
    THEN ParseMatched(ev, Event_Influence_Contracts_Crew_Crew_Approval,
                      "ParseInfluence_Contracts_Crew_Crew_Approval",
                      ParseInfluence_Contracts_Crew_Crew_Approval(ev.Parameters))
    ELSE IF Event_Influence_Contracts_Crew_Crew_ApprovalForAll_Felt = ev.PrimaryKey
    THEN ParseMatched(ev, Event_Influence_Contracts_Crew_Crew_ApprovalForAll,
                      "ParseInfluence_Contracts_Crew_Crew_ApprovalForAll",
                      ParseInfluence_Contracts_Crew_Crew_ApprovalForAll(ev.Parameters))
    ELSE IF Event_Influence_Contracts_Crew_Crew_Transfer_Felt = ev.PrimaryKey
    THEN ParseMatched(ev, Event_Influence_Contracts_Crew_Crew_Transfer,
                      "ParseInfluence_Contracts_Crew_Crew_Transfer",
                      ParseInfluence_Contracts_Crew_Crew_Transfer(ev.Parameters))
    ELSE ParseUnmatched(ev)

----------------------------------------------------------------------------
(* The decoders and Parse, applied to one RawEvent *)

\* longest parameter list made of arbitrary field elements
MaxParams == 4
\* most structs in an encoded array of structs
MaxItems == 2

\* field elements: small lengths, the largest int, a length that is negative
\* as an int, and an element above the uint64 range
Felts == {0, 1, 2, MaxInt, MaxUint, UintMod + 1}
ShortParameters == UNION { [1 .. n -> Felts] : n \in 0 .. MaxParams }
\* the encodings of the arrays of up to MaxItems three-field structs
StructArrays ==
    UNION { { <<k>> \o fields : fields \in [1 .. 3 * k -> {1, 2}] } : k \in 0 .. MaxItems }
ParameterLists == ShortParameters \cup StructArrays
PrimaryKeys == SignatureFelts \cup {OtherFelt, NilFelt}

StructDecoders ==
    { Scalar("ParseInfluence_Contracts_Crew_Crew_Transfer"),
      Scalar("ParseInfluence_Contracts_Crew_Crew_Approval"),
      Scalar("ParseInfluence_Contracts_Crew_Crew_ApprovalForAll") }
ScalarDecoders ==
    { Scalar("ParseUint64"), Scalar("ParseBigInt"), Scalar("ParseString"),
      Scalar("ParseCore_Bool") }
ArrayDecoders ==
    { ArrayOf(Scalar("ParseString")), ArrayOf(Scalar("ParseUint64")),
      ArrayOf(ArrayOf(Scalar("ParseString"))),
      ArrayOf(Scalar("ParseInfluence_Contracts_Crew_Crew_Transfer")) }
Decoders ==
    ScalarDecoders \cup StructDecoders \cup ArrayDecoders
    \cup {Scalar("ParseCore_Array_Span_core_Felt252")}

NoDecoder == Scalar("none")
TheParser == Scalar("Parse")

DecodeInit ==
    /\ rawEvent \in [PrimaryKey : PrimaryKeys, Parameters : ParameterLists]
    /\ applied = NoDecoder
    /\ result = NoResult
    /\ HexIdle
    /\ SearchIdle
    /\ CrawlIdle
    /\ ParseIdle
    /\ EmitIdle

\* a decoder is applied to the parameters of the event
CallDecoder ==
    /\ applied = NoDecoder
    /\ \E d \in Decoders :
         /\ applied' = d
         /\ result' = Decode(d, rawEvent.Parameters)
    /\ UNCHANGED <<rawEvent, hexVars, searchVars, parseVars, emitVars, crawl>>

\* src/cmd.go, the parse command: parser.Parse(event)
CallParse ==
    /\ applied = NoDecoder
    /\ applied' = TheParser
    /\ result' = Parse(rawEvent)
    /\ UNCHANGED <<rawEvent, hexVars, searchVars, parseVars, emitVars, crawl>>

DecodeNext ==
    \/ CallDecoder
    \/ CallParse

DecodeSpec == DecodeInit /\ [][DecodeNext]_vars

----------------------------------------------------------------------------
(* DeploymentBlock, the binary search for the first block at which the
   contract has code.  The events and find-deployment-block commands call
   it; the search itself is the one the specification states. *)

\* highest chain head the search starts from; lo + hi stays within the word
MaxChainHead == 12

\* "does the contract have code at block n": false below deployedAt, true
\* from there on
Probe(n) == n >= deployedAt

\* mid = (lo + hi) / 2 in uint64
Midpoint(l, h) == AddU(l, h) \div 2

\* the search discarding mid when the contract has code there
BisectDroppingMid(l, h, hasCode) ==
    IF hasCode THEN [lo |-> l, hi |-> Midpoint(l, h) - 1]
    ELSE [lo |-> Midpoint(l, h) + 1, hi |-> h]

\* one round of the loop: hi = mid if probe(mid), else lo = mid + 1
Bisect(l, h, hasCode) ==
    IF hasCode THEN [lo |-> l, hi |-> Midpoint(l, h)]
    ELSE [lo |-> Midpoint(l, h) + 1, hi |-> h]

SearchInit ==
    /\ chainHead \in 0 .. MaxChainHead
    /\ deployedAt \in 0 .. chainHead
    /\ lo = 0
    /\ hi = chainHead
    /\ probes = << >>
    /\ searchPc = "loop"
    /\ HexIdle
    /\ DecodeIdle
    /\ CrawlIdle
    /\ ParseIdle
    /\ EmitIdle

\* a round whose probe finds code at mid
SearchProbeTrue ==
    /\ searchPc = "loop"
    /\ lo < hi
    /\ Probe(Midpoint(lo, hi))
    /\ lo' = Bisect(lo, hi, TRUE).lo
    /\ hi' = Bisect(lo, hi, TRUE).hi
    /\ probes' = Append(probes, Midpoint(lo, hi))
    /\ UNCHANGED <<chainHead, deployedAt, searchPc, hexVars, decodeVars, parseVars, emitVars, crawl>>

\* a round whose probe finds no code at mid
SearchProbeFalse ==
    /\ searchPc = "loop"
    /\ lo < hi
    /\ ~Probe(Midpoint(lo, hi))
    /\ lo' = Bisect(lo, hi, FALSE).lo
    /\ hi' = Bisect(lo, hi, FALSE).hi
    /\ probes' = Append(probes, Midpoint(lo, hi))
    /\ UNCHANGED <<chainHead, deployedAt, searchPc, hexVars, decodeVars, parseVars, emitVars, crawl>>

\* the loop ends and lo is returned
SearchReturn ==
    /\ searchPc = "loop"
    /\ ~(lo < hi)
    /\ searchPc' = "done"
    /\ UNCHANGED <<chainHead, deployedAt, lo, hi, probes, hexVars, decodeVars, parseVars, emitVars, crawl>>

SearchNext ==
    \/ SearchProbeTrue
    \/ SearchProbeFalse
    \/ SearchReturn

\* the loop runs on its own: a round that can be taken is taken
SearchSpec == SearchInit /\ [][SearchNext]_vars /\ WF_vars(SearchNext)

----------------------------------------------------------------------------
(* The parse command, src/cmd.go.  A line of the input is the JSON of a
   record {Name, Event}; the Event of a record the events command wrote is
   a RawEvent. *)

\* most lines in the input file
MaxLines == 3

\* line 270: the scanner's buffer has the default size; a line holds that
\* many parameters at most, counted here in parameters instead of bytes
MaxTokenParameters == 3

\* parameter lists the three-field decoders cannot and can decode, and one
\* whose line is longer than the scanner's buffer
TwoParameters == <<1, 2>>
ThreeParameters == <<1, 2, 1>>
LongParameters == [i \in 1 .. MaxTokenParameters + 1 |-> 1]

\* lines: crawled events with a registered or an unknown key, a crawled
\* event without a primary key, one with a long parameter list, and an
\* event parsed by an earlier run
Lines ==
    { [Name |-> EVENT_UNKNOWN, Event |-> [PrimaryKey |-> k, Parameters |-> ps]] :
        k \in {Event_Influence_Contracts_Crew_Crew_Transfer_Felt,
               Event_Influence_Contracts_Crew_Crew_Approval_Felt, OtherFelt},
        ps \in {TwoParameters, ThreeParameters} }
    \cup { [Name |-> EVENT_UNKNOWN, Event |-> [Parameters |-> ThreeParameters]] }
    \cup { [Name |-> EVENT_UNKNOWN,
            Event |-> [PrimaryKey |-> OtherFelt, Parameters |-> LongParameters]] }
    \cup { [Name |-> Event_Influence_Contracts_Crew_Crew_Transfer,
            Event |-> ParseInfluence_Contracts_Crew_Crew_Transfer(ThreeParameters).value] }
InputFiles == UNION { [1 .. n -> Lines] : n \in 0 .. MaxLines }

\* line 271: scanner.Scan() hands out a line that fits its buffer and
\* returns false on a longer one
Fits(partialEvent) ==
    "Parameters" \in DOMAIN partialEvent.Event =>
        Len(partialEvent.Event.Parameters) <= MaxTokenParameters

\* line 280: json.Unmarshal(partialEvent.Event, &event); a field the JSON
\* does not hold keeps its zero value
Unmarshal(raw) ==
    [PrimaryKey |-> IF "PrimaryKey" \in DOMAIN raw THEN raw.PrimaryKey ELSE NilFelt,
     Parameters |-> IF "Parameters" \in DOMAIN raw THEN raw.Parameters ELSE NilSlice]

\* json.Marshal and the two ofp.Write calls
Write(record, writeFails) ==
    IF writeFails THEN [kind |-> "return", record |-> record, err |-> "writeErr"]
    ELSE [kind |-> "written", record |-> record, err |-> "nil"]

\* the body of the loop with a decode failure returned from RunE
ScanBodyAbortingOnFailure(partialEvent, writeFails) ==
    IF partialEvent.Name = EVENT_UNKNOWN
    THEN LET parsed == Parse(Unmarshal(partialEvent.Event))
         IN  IF parsed.kind = "panic"
             THEN [kind |-> "panic", record |-> partialEvent, err |-> parsed.err]
             ELSE IF parsed.err = "nil"
             THEN Write(parsed.value, writeFails)
             ELSE [kind |-> "return", record |-> partialEvent, err |-> parsed.err]
    ELSE Write(partialEvent, writeFails)

\* lines 272-316: the body of the loop for one line
ScanBody(partialEvent, writeFails) ==
    IF partialEvent.Name = EVENT_UNKNOWN
    THEN LET parsed == Parse(Unmarshal(partialEvent.Event))
         IN  IF parsed.kind = "panic"
             THEN [kind |-> "panic", record |-> partialEvent, err |-> parsed.err]
             ELSE IF parsed.err = "nil"
             THEN Write(parsed.value, writeFails)
             ELSE Write(partialEvent, writeFails)
    ELSE Write(partialEvent, writeFails)

ParseCmdInit ==
    /\ ifp \in InputFiles
    /\ ofp = << >>
    /\ scanned = 0
    /\ parsePc = "scan"
    /\ parseRet = "none"
    /\ HexIdle
    /\ DecodeIdle
    /\ SearchIdle
    /\ CrawlIdle
    /\ EmitIdle

\* a line is scanned and a record is written
ScanWrites ==
    /\ parsePc = "scan"
    /\ scanned < Len(ifp)
    /\ Fits(ifp[scanned + 1])
    /\ \E writeFails \in BOOLEAN :
         LET body == ScanBody(ifp[scanned + 1], writeFails)
         IN  /\ body.kind = "written"
             /\ ofp' = Append(ofp, body.record)
    /\ scanned' = scanned + 1
    /\ UNCHANGED <<ifp, parsePc, parseRet, hexVars, decodeVars, searchVars, emitVars, crawl>>

\* a line is scanned and RunE returns an error
ScanReturns ==
    /\ parsePc = "scan"
    /\ scanned < Len(ifp)
    /\ Fits(ifp[scanned + 1])
    /\ \E writeFails \in BOOLEAN :
         LET body == ScanBody(ifp[scanned + 1], writeFails)
         IN  /\ body.kind = "return"
             /\ parseRet' = body.err
    /\ scanned' = scanned + 1
    /\ parsePc' = "returned"
    /\ UNCHANGED <<ifp, ofp, hexVars, decodeVars, searchVars, emitVars, crawl>>

\* a line is scanned and Parse panics
ScanPanics ==
    /\ parsePc = "scan"
    /\ scanned < Len(ifp)
    /\ Fits(ifp[scanned + 1])
    /\ \E writeFails \in BOOLEAN :
         ScanBody(ifp[scanned + 1], writeFails).kind = "panic"
    /\ scanned' = scanned + 1
    /\ parsePc' = "panicked"
    /\ UNCHANGED <<ifp, ofp, parseRet, hexVars, decodeVars, searchVars, emitVars, crawl>>

\* lines 271, 318: scanner.Scan() returns false at the end of the input and
\* at a line longer than its buffer; scanner.Err() is not looked at and
\* RunE returns nil
ScanEnds ==
    /\ parsePc = "scan"
    /\ IF scanned < Len(ifp) THEN ~Fits(ifp[scanned + 1]) ELSE TRUE
    /\ parsePc' = "returned"
    /\ parseRet' = "nil"
    /\ UNCHANGED <<ifp, ofp, scanned, hexVars, decodeVars, searchVars, emitVars, crawl>>

ParseCmdNext ==
    \/ ScanWrites
    \/ ScanReturns
    \/ ScanPanics
    \/ ScanEnds

ParseCmdSpec == ParseCmdInit /\ [][ParseCmdNext]_vars

----------------------------------------------------------------------------
(* The loop of ContractEvents over the events of one page, lines 181-193,
   with the key and data lists of the events *)

\* most events in the page
MaxPageLen == 2

KeyLists == { << >>, <<"k1">>, <<"k1", "k2">>, <<"k2", "k1">> }
DataLists == { << >>, <<1>> }
ProviderEventSet == [BlockNumber : {1, 2}, Keys : KeyLists, Data : DataLists]
EventPages == UNION { [1 .. n -> ProviderEventSet] : n \in 0 .. MaxPageLen }

\* lines 182-190: event.Keys[0] of an empty key list is an index out of
\* range
CrawledEvent(ev) ==
    IF Len(ev.Keys) = 0 THEN [kind |-> "panic"]
    ELSE [kind |-> "event",
          value |-> [BlockNumber |-> ev.BlockNumber,
                     PrimaryKey |-> ev.Keys[1],
                     Keys |-> ev.Keys,
                     Parameters |-> ev.Data]]

EmitInit ==
    /\ eventsPage \in EventPages
    /\ outChan = << >>
    /\ emitPc = "range"
    /\ HexIdle
    /\ DecodeIdle
    /\ SearchIdle
    /\ CrawlIdle
    /\ ParseIdle

\* line 192: the RawEvent of the next event is sent
EmitSends ==
    /\ emitPc = "range"
    /\ Len(outChan) < Len(eventsPage)
    /\ LET crawledEvent == CrawledEvent(eventsPage[Len(outChan) + 1])
       IN  /\ crawledEvent.kind = "event"
           /\ outChan' = Append(outChan, crawledEvent.value)
    /\ UNCHANGED <<eventsPage, emitPc, hexVars, decodeVars, searchVars, parseVars, crawl>>

\* line 187 panics
EmitPanics ==
    /\ emitPc = "range"
    /\ Len(outChan) < Len(eventsPage)
    /\ CrawledEvent(eventsPage[Len(outChan) + 1]).kind = "panic"
    /\ emitPc' = "panicked"
    /\ UNCHANGED <<eventsPage, outChan, hexVars, decodeVars, searchVars, parseVars, crawl>>

\* the range over eventsChunk.Events is through
EmitEnds ==
    /\ emitPc = "range"
    /\ Len(outChan) = Len(eventsPage)
    /\ emitPc' = "done"
    /\ UNCHANGED <<eventsPage, outChan, hexVars, decodeVars, searchVars, parseVars, crawl>>

EmitNext ==
    \/ EmitSends
    \/ EmitPanics
    \/ EmitEnds

EmitSpec == EmitInit /\ [][EmitNext]_vars

----------------------------------------------------------------------------
(* Helpers of the properties *)

RECURSIVE PagesEvents(_, _)
\* the events of the first k pages, in order
PagesEvents(pages, k) ==
    IF k = 0 THEN << >> ELSE PagesEvents(pages, k - 1) \o pages[k].Events

\* a step of ContractEvents (the other steps leave its locals and the history alone)
PollerStep == <<locals, hist>>' # <<locals, hist>>

\* ContractEvents has stopped
Stopped == pc \in {"returned", "panicked"}

----------------------------------------------------------------------------
(* C1: pagination of one range *)

\* C1: the k pages of a range are fetched by exactly k queries with the same
\* fromBlock and toBlock, the first with the empty token and each later one
\* with the token the previous page returned; every event of every page is
\* emitted in the order received; the cursor keeps fromBlock and toBlock
\* until the page with the empty token, and then fromBlock is toBlock + 1.
C1_Pagination ==
    LET k == Len(rangeQueries)
    IN  /\ Len(rangePages) = k
        /\ \A i \in 1 .. k :
             /\ rangeQueries[i].FromBlock = rangeQueries[1].FromBlock
             /\ rangeQueries[i].ToBlock = rangeQueries[1].ToBlock
             /\ rangeQueries[i].ContinuationToken =
                  IF i = 1 THEN EmptyToken ELSE rangePages[i - 1].ContinuationToken
             /\ i < k => rangePages[i].ContinuationToken # EmptyToken
        /\ rangeEmitted =
             IF pc = "send"
             THEN PagesEvents(rangePages, k - 1) \o SubSeq(rangePages[k].Events, 1, sent)
             ELSE PagesEvents(rangePages, k)
        /\ rangeOpen =>
             /\ k >= 1
             /\ cursor.FromBlock = rangeQueries[1].FromBlock
             /\ cursor.ToBlock = rangeQueries[1].ToBlock
             /\ pc # "send" => rangePages[k].ContinuationToken # EmptyToken
        /\ (~rangeOpen /\ k >= 1) =>
             /\ rangePages[k].ContinuationToken = EmptyToken
             /\ cursor.FromBlock = AddU(rangeQueries[1].ToBlock, 1)

\* a range served in a page of two events with a token and a page of one
\* event without: three events emitted by two queries, fromBlock advanced
C1_Witness ==
    /\ ~rangeOpen
    /\ Len(rangeQueries) = 2
    /\ Len(rangePages[1].Events) = 2
    /\ Len(rangePages[2].Events) = 1
    /\ Len(rangeEmitted) = 3
    /\ cursor.FromBlock = rangeQueries[1].ToBlock + 1

----------------------------------------------------------------------------
(* C2: the end of a fixed range *)

\* what the step after the last page of a fixed range must be: a return of
\* nil that closes the channel, with no event and no provider call
EndsCleanly ==
    /\ pc' = "returned"
    /\ ret' = "nil"
    /\ closed' = closed + 1
    /\ emitted' = emitted
    /\ rangeEmitted' = rangeEmitted
    /\ stepCalls' = {}

\* C2: in a crawl with a non-zero toBlock greater than fromBlock, once the
\* page with the empty token has been processed, the very next iteration
\* returns nil, closes the channel, emits nothing and calls no provider.
C2_FixedRangeEnds ==
    [][(/\ toBlock # 0
        /\ toBlock > fromBlock
        /\ pc = "select"
        /\ lastStep = "advance"
        /\ PollerStep) => EndsCleanly]_vars

\* the same for every toBlock below the largest uint64, where
\* cursor.ToBlock + 1 does not wrap around
C2_BelowMaxUint ==
    [][(/\ toBlock # 0
        /\ toBlock # MaxUint
        /\ toBlock > fromBlock
        /\ pc = "select"
        /\ lastStep = "advance"
        /\ PollerStep) => EndsCleanly]_vars

----------------------------------------------------------------------------
(* C3: a continuous crawl that went cold *)

\* the chain has finalized blocks beyond the cursor
NewlyFinalized ==
    /\ head >= confirmations
    /\ head - confirmations > cursor.FromBlock

\* C3: in a continuous crawl (toBlock = 0) that has gone cold, once the head
\* has risen so that head - confirmations > fromBlock, an event query is
\* eventually issued, unless the provider fails or the context is cancelled.
C3_ColdOnlyDelays ==
    [](( /\ toBlock = 0
         /\ pc = "select"
         /\ lastStep = "cold"
         /\ NewlyFinalized )
        => <>(cancelled \/ Stopped \/ lastStep \in {"fetch", "page", "advance"}))

----------------------------------------------------------------------------
(* C4: the upper bound of a continuous crawl *)

\* the toBlock the iteration that has just run used for its cold check and
\* its event query
UsedToBlock ==
    IF lastStep' \in {"fetch", "page", "advance"}
    THEN rangeQueries'[Len(rangeQueries')].ToBlock
    ELSE cursor'.ToBlock

\* C4: an iteration of a continuous crawl (toBlock = 0) that resolves the
\* upper bound uses the chain head minus confirmations (in uint64
\* arithmetic; the plain difference when the head is at least
\* confirmations), and with confirmations above 0 never the head itself.
C4_HeadMinusConfirmations ==
    [][(/\ toBlock = 0
        /\ pc = "select"
        /\ PollerStep
        /\ "BlockNumber" \in stepCalls'
        /\ lastStep' # "blockErr")
       => /\ UsedToBlock = SubU(head, ToUint(confirmations))
          /\ head >= confirmations => UsedToBlock = head - confirmations
          /\ confirmations > 0 => UsedToBlock # head]_vars

\* head 3 and confirmations 1: the event query goes up to block 2
C4_Witness ==
    /\ toBlock = 0
    /\ confirmations = 1
    /\ head = 3
    /\ lastStep = "fetch"
    /\ "BlockNumber" \in stepCalls
    /\ rangeQueries[Len(rangeQueries)].ToBlock = 2

----------------------------------------------------------------------------
(* C5: the cursor only moves forward *)

\* C5: cursor.FromBlock never decreases, and every range advance strictly
\* increases it.
C5_FromBlockForward ==
    [][/\ cursor'.FromBlock >= cursor.FromBlock
       /\ (PollerStep /\ lastStep' = "advance") => cursor'.FromBlock > cursor.FromBlock]_vars

----------------------------------------------------------------------------
(* C6: the ranges queried *)

\* a step that issues the first query of a range
RangeStarts ==
    /\ pc = "select"
    /\ ~rangeOpen
    /\ PollerStep
    /\ lastStep' \in {"fetch", "page", "advance"}

\* a step in which the consumer receives an event
Receives == Len(rangeEmitted') = Len(rangeEmitted) + 1

\* C6: each new range starts at the previous range's toBlock + 1 and shares
\* no block with an earlier range; no event is emitted twice and the block
\* numbers emitted never decrease.
C6_ContiguousDisjoint ==
    [][/\ RangeStarts =>
            /\ rangeQueries # << >> =>
                 rangeQueries'[1].FromBlock = rangeQueries[1].ToBlock + 1
            /\ (rangeQueries'[1].FromBlock .. rangeQueries'[1].ToBlock)
                 \cap covered = {}
       /\ Receives =>
            /\ rangeEmitted'[Len(rangeEmitted')] \notin emitted
            /\ lastBlock' >= lastBlock]_vars

\* the same as long as no range has reached the largest uint64, where
\* cursor.ToBlock + 1 wraps around to 0
C6_BelowMaxUint ==
    [][MaxUint \notin covered =>
       /\ RangeStarts =>
            /\ rangeQueries # << >> =>
                 rangeQueries'[1].FromBlock = rangeQueries[1].ToBlock + 1
            /\ (rangeQueries'[1].FromBlock .. rangeQueries'[1].ToBlock)
                 \cap covered = {}
       /\ Receives =>
            /\ rangeEmitted'[Len(rangeEmitted')] \notin emitted
            /\ lastBlock' >= lastBlock]_vars

----------------------------------------------------------------------------
(* C7: cancellation *)

\* once ContractEvents has stopped, it does nothing more
StoppedForGood == [][Stopped => UNCHANGED <<locals, hist, closed>>]_vars

\* C7: the step ContractEvents takes when the context has been cancelled
\* while it waits in the select returns nil and closes the channel, with no
\* event and no provider call; and nothing follows it.
C7_CancelledWhileWaiting ==
    /\ [][(cancelled /\ pc = "select" /\ PollerStep) => EndsCleanly]_vars
    /\ StoppedForGood

\* cancelled in the middle of a range, after events were emitted
C7_Witness ==
    /\ cancelled
    /\ pc = "returned"
    /\ ret = "nil"
    /\ closed = 1
    /\ lastStep = "done"
    /\ rangeOpen
    /\ emitted # {}

----------------------------------------------------------------------------
(* C8: errors *)

Errors == {"blockErr", "filterErr", "eventsErr"}

----------------------------------------------------------------------------
(* C9: what the events command reports *)

\* C9: the events command returns a non-nil error when the crawl ended on a
\* provider error, and nil only when it ended cleanly.
C9_CommandReportsFailure ==
    cmdPc = "returned" =>
        /\ ret \in Errors => cmdErr # "nil"
        /\ ret = "nil" => cmdErr = "nil"

----------------------------------------------------------------------------
(* C10: the crawl heats up *)

\* C10: after hotThreshold consecutive range advances whose last page held
\* an event, the interval of the next wait is hotInterval.
C10_HotAfterThreshold ==
    (pc = "select" /\ lastStep = "advance" /\ streak >= hotThreshold)
        => cursor.Interval = hotInterval

\* two productive advances in a row with hotThreshold 2
C10_Witness ==
    /\ pc = "select"
    /\ lastStep = "advance"
    /\ hotThreshold = 2
    /\ streak = 2
    /\ cursor.Interval = hotInterval
    /\ toBlock = 0


----------------------------------------------------------------------------
(* C11: Parse applied to a RawEvent whose PrimaryKey is none of the
   registered signature felts returns the ParsedEvent named UNKNOWN that
   carries the same RawEvent, with a nil error, and has invoked no event
   decoder. *)

Parsed == applied = TheParser

C11_UnknownKeyPassesThrough ==
    Parsed /\ rawEvent.PrimaryKey \notin SignatureFelts \cup {NilFelt} =>
        /\ result.kind = "return"
        /\ result.value = [Name |-> EVENT_UNKNOWN, Event |-> rawEvent]
        /\ result.err = "nil"
        /\ result.invoked = {}

C11_Witness ==
    /\ Parsed
    /\ rawEvent.PrimaryKey = OtherFelt
    /\ Len(rawEvent.Parameters) >= 3
    /\ result.value.Name = EVENT_UNKNOWN
    /\ result.err = "nil"

----------------------------------------------------------------------------
(* C12: Parse applied to a RawEvent whose PrimaryKey is a registered
   signature and whose Parameters the decoder of that event cannot decode
   returns the UNKNOWN sentinel carrying the untouched RawEvent together
   with the decoder's error, which is not nil; an error never comes with
   the name of the matched event or with a decoded value. *)

\* the decoder registered for a signature felt
DecoderOf(key) ==
    IF key = Event_Influence_Contracts_Crew_Crew_Approval_Felt
    THEN Scalar("ParseInfluence_Contracts_Crew_Crew_Approval")
    ELSE IF key = Event_Influence_Contracts_Crew_Crew_ApprovalForAll_Felt
    THEN Scalar("ParseInfluence_Contracts_Crew_Crew_ApprovalForAll")
    ELSE Scalar("ParseInfluence_Contracts_Crew_Crew_Transfer")

C12_FailedDecodePassesThrough ==
    /\ Parsed /\ rawEvent.PrimaryKey \in SignatureFelts
         /\ Decode(DecoderOf(rawEvent.PrimaryKey), rawEvent.Parameters).err # "nil" =>
            /\ result.kind = "return"
            /\ result.value = [Name |-> EVENT_UNKNOWN, Event |-> rawEvent]
            /\ result.err = ErrIncorrectParameters
            /\ result.err =
                 Decode(DecoderOf(rawEvent.PrimaryKey), rawEvent.Parameters).err
    /\ Parsed /\ rawEvent.PrimaryKey \in SignatureFelts
         /\ Len(rawEvent.Parameters) < 3 => result.err # "nil"
    /\ Parsed /\ result.kind = "return" /\ result.err # "nil" =>
            /\ result.value.Name = EVENT_UNKNOWN
            /\ result.value.Event = rawEvent

C12_Witness ==
    /\ Parsed
    /\ rawEvent.PrimaryKey = Event_Influence_Contracts_Crew_Crew_Transfer_Felt
    /\ Len(rawEvent.Parameters) = 2
    /\ result.err = ErrIncorrectParameters
    /\ result.value.Name = EVENT_UNKNOWN

----------------------------------------------------------------------------
(* The wire format, stated apart from the decoders: a scalar is one field
   element, an event struct its three fields, an array its length (the
   uint64 its first element holds) followed by its items. *)

StructFns == {"ParseInfluence_Contracts_Crew_Crew_Transfer",
              "ParseInfluence_Contracts_Crew_Crew_Approval",
              "ParseInfluence_Contracts_Crew_Crew_ApprovalForAll"}
ArrayFns == {"ParseArray", "ParseCore_Array_Span_core_Felt252"}

ItemOf(d) == IF d.fn = "ParseArray" THEN d.item ELSE Scalar("ParseString")

RECURSIVE EncodingLength(_, _)
RECURSIVE ItemsEnd(_, _, _, _)

\* the index after the encodings of `left` items that start at index, or -1
ItemsEnd(item, parameters, left, index) ==
    IF left = 0 THEN index
    ELSE IF index >= Len(parameters) THEN -1
    ELSE LET l == EncodingLength(item, SliceFrom(parameters, index))
         IN  IF l < 0 THEN -1
             ELSE ItemsEnd(item, parameters, left - 1, index + l)

\* how many elements the encoding of a value for d takes at the front of
\* parameters, or -1 when there is no such encoding
EncodingLength(d, parameters) ==
    IF d.fn \in StructFns THEN (IF Len(parameters) >= 3 THEN 3 ELSE -1)
    ELSE IF d.fn \in ArrayFns
    THEN (IF Len(parameters) < 1 THEN -1
          ELSE ItemsEnd(ItemOf(d), parameters, FeltUint64(parameters[1]), 1))
    ELSE (IF Len(parameters) >= 1 THEN 1 ELSE -1)

\* where the encoding of item i of a well-formed array starts
ItemStart(item, parameters, i) == ItemsEnd(item, parameters, i - 1, 1)

RECURSIVE SumConsumed(_, _, _)
\* the consumed counts the item decoder reports for the first k items
SumConsumed(item, parameters, k) ==
    IF k = 0 THEN 0
    ELSE SumConsumed(item, parameters, k - 1)
         + Decode(item, SliceFrom(parameters, ItemStart(item, parameters, k))).consumed

\* the decoder reports what the wire format says it read
Truthful(d) ==
    /\ d.fn \notin StructFns
    /\ d.fn = "ParseArray" => ItemOf(d).fn \notin StructFns

----------------------------------------------------------------------------
(* C13: for every well-formed array encoding (a length element n followed by
   the encodings of n items) the decoder ParseArray(D) succeeds, reports
   consumed = 1 + the sum of the consumed counts D reports for the n items,
   and returns exactly n values in order, item i being D's result on the
   slice that starts where item i-1 ended. *)

ArrayDecoded(d) == d.fn = "ParseArray" /\ EncodingLength(d, rawEvent.Parameters) >= 0

ArrayAsEncoded(d) ==
    LET P == rawEvent.Parameters
        n == FeltUint64(P[1])
    IN  /\ result.kind = "return"
        /\ result.err = "nil"
        /\ Len(result.value) = n
        /\ \A i \in 1 .. n :
             result.value[i] = Decode(d.item, SliceFrom(P, ItemStart(d.item, P, i))).value
        /\ result.consumed = 1 + SumConsumed(d.item, P, n)

C13_WellFormedArray == ArrayDecoded(applied) => ArrayAsEncoded(applied)

\* the claim holds for the item decoders that report what they read: the
\* scalars and the arrays of scalars
C13_TruthfulItems == ArrayDecoded(applied) /\ Truthful(applied) => ArrayAsEncoded(applied)

----------------------------------------------------------------------------
(* C14: every decoder, on success, reports as consumed exactly the number of
   field elements it read from the front of its input, so that a caller that
   advances by that count lands on the first unread element: the scalar
   decoders, ParseArray, and the event struct decoders, which read three. *)

Decoded == applied \in Decoders
Succeeded == result.kind = "return" /\ result.err = "nil"

C14_ConsumedIsRead ==
    Decoded /\ Succeeded =>
        /\ result.consumed = EncodingLength(applied, rawEvent.Parameters)
        /\ result.consumed <= Len(rawEvent.Parameters)

\* the scalar decoders and the arrays of scalars do report what they read
C14_TruthfulDecoders ==
    Decoded /\ Succeeded /\ Truthful(applied) =>
        /\ result.consumed = EncodingLength(applied, rawEvent.Parameters)
        /\ result.consumed <= Len(rawEvent.Parameters)

----------------------------------------------------------------------------
(* C15: for every monotone "has code" predicate over [0, chainHead] that is
   true at chainHead (false below some block d, true from d on) the search
   (lo = 0, hi = chainHead; mid = (lo + hi) / 2; hi = mid if probe(mid), else
   lo = mid + 1) terminates and returns exactly d, the smallest block at
   which the contract has code. *)

C15_FindsDeploymentBlock ==
    /\ [](searchPc = "done" => lo = deployedAt)
    /\ <>(searchPc = "done")

C15_Witness ==
    /\ searchPc = "done"
    /\ 0 < deployedAt /\ deployedAt < chainHead
    /\ Len(probes) >= 3
    /\ \E i, j \in 1 .. Len(probes) : Probe(probes[i]) /\ ~Probe(probes[j])
    /\ lo = deployedAt

----------------------------------------------------------------------------
(* C16: in every reachable cursor state of ContractEvents in which fromBlock
   and toBlock are both resolved and not zero, fromBlock <= toBlock. *)

C16_FromAtMostTo ==
    cursor.FromBlock # 0 /\ cursor.ToBlock # 0 => cursor.FromBlock <= cursor.ToBlock

\* C16 as amended: whenever ContractEvents issues an event query, the
\* cursor's range has fromBlock < toBlock; a cursor with fromBlock above
\* toBlock is the cold cursor, from which no query is issued.
C16_QueriedRangeOrdered ==
    /\ \A i \in 1 .. Len(rangeQueries) :
         rangeQueries[i].FromBlock < rangeQueries[i].ToBlock
    /\ "Events" \in stepCalls /\ lastStep = "eventsErr" =>
         cursor.FromBlock < cursor.ToBlock

\* a fixed range has been queried and advanced over, and the cursor is past it
C16_Witness ==
    /\ toBlock # 0
    /\ Len(rangeQueries) >= 1
    /\ lastStep = "advance"
    /\ cursor.ToBlock # 0
    /\ cursor.FromBlock > cursor.ToBlock

----------------------------------------------------------------------------
(* C17: FeltFromHexString is total: for every string it returns a field
   element or an error, and a string that is not valid hex (the empty
   string, a single character, an odd number of digits, a character that
   is no hex digit) yields the error and never a crash. *)

ValidHex(s) == Len(StripPrefix0x(s)) % 2 = 0
               /\ \A i \in 1 .. Len(StripPrefix0x(s)) : StripPrefix0x(s)[i] \in HexDigits

C17_FeltFromHexStringTotal ==
    derivedFelt # NoResult =>
        /\ derivedFelt.outcome \in {"ok", "err"}
        /\ ~ValidHex(hexString) => derivedFelt.outcome = "err"

\* apart from the strings shorter than two characters the function is total
C17_TotalFromTwoCharacters ==
    derivedFelt # NoResult /\ Len(hexString) >= 2 =>
        /\ derivedFelt.outcome \in {"ok", "err"}
        /\ derivedFelt.outcome = "err" <=> ~ValidHex(hexString)

----------------------------------------------------------------------------
(* C18: a malformed contract address given to ContractEvents is reported as
   an error before any polling begins: before the first provider call of
   either kind (chain-head query or event query), in fixed-range and in
   open-ended crawls alike. *)

Malformed(address) == address # << >> /\ ~ValidHex(address)

C18_MalformedBeforePolling ==
    [][Malformed(contractAddress) /\ PollerStep => stepCalls' = {}]_vars

\* in a fixed-range crawl no provider call precedes the error
C18_FixedRangeBeforePolling ==
    [][Malformed(contractAddress) /\ toBlock # 0 /\ PollerStep => stepCalls' = {}]_vars

----------------------------------------------------------------------------
(* C19: ParseArray(D), applied to an input whose first element declares the
   length n, fails with ErrIncorrectParameters (an error, no crash and no
   success) whenever the elements that follow are too few for n items as D
   consumes them; for every n a uint64 holds, those from 2^63 on included,
   and for item decoders that consume more than one element. *)

DeclaredLength == FeltUint64(rawEvent.Parameters[1])

TooFewItems ==
    /\ applied.fn = "ParseArray"
    /\ Len(rawEvent.Parameters) >= 1
    /\ ItemsEnd(applied.item, rawEvent.Parameters, DeclaredLength, 1) < 0

C19_TooFewItemsFail ==
    TooFewItems => result.kind = "return" /\ result.err = ErrIncorrectParameters

\* the claim holds where every length is below the largest int and the item
\* decoder reports what it read
C19_LengthsBelowMaxInt ==
    TooFewItems /\ Truthful(applied)
                /\ (\A i \in 1 .. Len(rawEvent.Parameters) :
                       FeltUint64(rawEvent.Parameters[i]) < MaxInt) =>
        result.kind = "return" /\ result.err = ErrIncorrectParameters

----------------------------------------------------------------------------
(* C20: an event struct decoder decodes its fields from left to right over
   the same parameter slice, and when a field fails it returns that error
   with a consumed count of 0 and no partially populated struct: the fields
   decoded before the failure are not in the returned value. *)

ZeroStruct(fn) ==
    IF fn = "ParseInfluence_Contracts_Crew_Crew_Transfer"
    THEN [From |-> EmptyString, To |-> EmptyString, TokenId |-> NilBigInt]
    ELSE IF fn = "ParseInfluence_Contracts_Crew_Crew_Approval"
    THEN [Owner |-> EmptyString, Approved |-> EmptyString, TokenId |-> NilBigInt]
    ELSE [Owner |-> EmptyString, Operator |-> EmptyString, Approved |-> 0]

StructFailed == applied.fn \in StructFns /\ result.err # "nil"

C20_NoPartialStruct ==
    StructFailed =>
        /\ result.err = ErrIncorrectParameters
        /\ result.consumed = 0
        /\ result.value = ZeroStruct(applied.fn)

\* the error and the consumed count of 0 are as the claim says
C20_ErrorAndZeroConsumed ==
    StructFailed => result.err = ErrIncorrectParameters /\ result.consumed = 0

----------------------------------------------------------------------------
(* C21: the parse command writes exactly one output record per input
   record, in input order: a record named UNKNOWN whose raw event matches a
   known signature and decodes is replaced by its decoded form, while a
   record whose decode fails, or whose name is already a known event name,
   is written through unchanged; a decode failure on one record never
   aborts the processing of the records after it. *)

\* the line holds a crawled event with a primary key, or a parsed event
Keyed(partialEvent) ==
    partialEvent.Name = EVENT_UNKNOWN => "PrimaryKey" \in DOMAIN partialEvent.Event

\* the event name a signature felt stands for
EventNameOf(key) ==
    IF key = Event_Influence_Contracts_Crew_Crew_Approval_Felt
    THEN Event_Influence_Contracts_Crew_Crew_Approval
    ELSE IF key = Event_Influence_Contracts_Crew_Crew_ApprovalForAll_Felt
    THEN Event_Influence_Contracts_Crew_Crew_ApprovalForAll
    ELSE Event_Influence_Contracts_Crew_Crew_Transfer

\* the record the line is to come out as
Reparsed(partialEvent) ==
    IF partialEvent.Name # EVENT_UNKNOWN THEN partialEvent
    ELSE LET rawOf == partialEvent.Event
         IN  IF rawOf.PrimaryKey \notin SignatureFelts
             THEN [Name |-> EVENT_UNKNOWN, Event |-> Unmarshal(rawOf)]
             ELSE LET decoded == Decode(DecoderOf(rawOf.PrimaryKey), rawOf.Parameters)
                  IN  IF decoded.err # "nil" THEN partialEvent
                      ELSE [Name |-> EventNameOf(rawOf.PrimaryKey),
                            Event |-> decoded.value]

----------------------------------------------------------------------------
(* C22: in an open-ended crawl (toBlock = 0) every iteration that finds the
   cursor cold is followed by an iteration that queries the chain head again
   and recomputes the upper bound as head - confirmations; a bound resolved
   earlier is never reused after the crawl has gone cold. *)

C22_ColdResolvesAgain ==
    [][(/\ toBlock = 0
        /\ lastStep = "cold"
        /\ PollerStep
        /\ lastStep' # "done")
       => /\ "BlockNumber" \in stepCalls'
          /\ lastStep' # "blockErr" =>
               UsedToBlock = SubU(head, ToUint(confirmations))]_vars

----------------------------------------------------------------------------
(* C23: on a range advance, heat is incremented by exactly one if the range
   yielded at least one event on any of its pages, and heat is reset to 0
   with the interval set to coldInterval only if the whole range, all of its
   pages, yielded no event. *)

\* the step advances over the range whose pages are rangePages'
Advances == lastStep' = "advance" /\ lastStep' # lastStep

RangeYielded == \E i \in 1 .. Len(rangePages') : rangePages'[i].Events # << >>

C23_HeatCountsTheRange ==
    [][Advances /\ <<cursor, rangePages>>' # <<cursor, rangePages>> =>
         IF RangeYielded
         THEN cursor'.Heat = cursor.Heat + 1
         ELSE cursor'.Heat = 0 /\ cursor'.Interval = coldInterval]_vars

\* what the code goes by is the last page alone
C23_HeatCountsTheLastPage ==
    [][Advances /\ <<cursor, rangePages>>' # <<cursor, rangePages>> =>
         IF rangePages'[Len(rangePages')].Events # << >>
         THEN cursor'.Heat = cursor.Heat + 1
         ELSE cursor'.Heat = 0 /\ cursor'.Interval = coldInterval]_vars

----------------------------------------------------------------------------
(* C24: when a fetch returns a non-empty continuation token, ContractEvents
   leaves the cursor's fromBlock, toBlock and heat unchanged, stores the
   returned token, and sets the interval to hotInterval whatever the heat
   and hotThreshold are. *)

C24_TokenKeepsRange ==
    [][lastStep' = "page" /\ cursor' # cursor =>
         LET query == rangeQueries'[Len(rangeQueries')]
             page == rangePages'[Len(rangePages')]
         IN  /\ page.ContinuationToken # EmptyToken
             /\ cursor'.FromBlock = cursor.FromBlock
             /\ cursor'.FromBlock = query.FromBlock
             /\ cursor'.ToBlock = cursor.ToBlock
             /\ cursor'.ToBlock = query.ToBlock
             /\ cursor'.Heat = cursor.Heat
             /\ cursor'.ContinuationToken = page.ContinuationToken
             /\ cursor'.Interval = hotInterval]_vars

\* a page with a token right after a range that yielded nothing: the heat is
\* 0, below the threshold, and the interval is hot
C24_Witness ==
    /\ lastStep = "page"
    /\ covered # {}
    /\ cursor.Heat = 0
    /\ cursor.Heat < hotThreshold
    /\ cursor.ContinuationToken # EmptyToken
    /\ cursor.Interval = hotInterval

----------------------------------------------------------------------------
(* C25: ContractEvents closes its output channel exactly once on every exit
   path (the clean end of a fixed range, cancellation, every error return)
   and never sends an event on the channel after closing it. *)

C25_ClosedOnceAtExit ==
    /\ [](closed <= 1)
    /\ [](pc = "returned" => closed = 1)
    /\ [](pc \in {"select", "send"} => closed = 0)
    /\ [][closed >= 1 => /\ closed' = closed
                         /\ emitted' = emitted
                         /\ rangeEmitted' = rangeEmitted]_vars

\* every kind of exit has happened with the channel closed once
C25_Witness ==
    /\ pc = "returned"
    /\ closed = 1
    /\ ret = "eventsErr"
    /\ emitted # {}

----------------------------------------------------------------------------
(* C26: the linear scan of EventParser.Parse (Approval, then ApprovalForAll,
   then Transfer) is equivalent to a lookup in a map keyed by signature: for
   every RawEvent both return the same name, value and error, and at most
   one event decoder is invoked per call. *)

\* the map keyed by signature: the name and the decoder of each event
Registry ==
    [key \in SignatureFelts |->
        IF key = Event_Influence_Contracts_Crew_Crew_Transfer_Felt
        THEN [name |-> Event_Influence_Contracts_Crew_Crew_Transfer,
              fn |-> "ParseInfluence_Contracts_Crew_Crew_Transfer"]
        ELSE IF key = Event_Influence_Contracts_Crew_Crew_ApprovalForAll_Felt
        THEN [name |-> Event_Influence_Contracts_Crew_Crew_ApprovalForAll,
              fn |-> "ParseInfluence_Contracts_Crew_Crew_ApprovalForAll"]
        ELSE [name |-> Event_Influence_Contracts_Crew_Crew_Approval,
              fn |-> "ParseInfluence_Contracts_Crew_Crew_Approval"]]

\* dispatch by one lookup in the map
ParseByMap(ev) ==
    IF ev.PrimaryKey \notin DOMAIN Registry
    THEN [name |-> EVENT_UNKNOWN, value |-> ev, err |-> "nil", invoked |-> {}]
    ELSE LET entry == Registry[ev.PrimaryKey]
             decoded == Decode(Scalar(entry.fn), ev.Parameters)
         IN  IF decoded.err = "nil"
             THEN [name |-> entry.name, value |-> decoded.value,
                   err |-> "nil", invoked |-> {entry.fn}]
             ELSE [name |-> EVENT_UNKNOWN, value |-> ev,
                   err |-> decoded.err, invoked |-> {entry.fn}]

C26_ScanIsMapLookup ==
    Parsed /\ rawEvent.PrimaryKey # NilFelt =>
        /\ result.kind = "return"
        /\ result.value.Name = ParseByMap(rawEvent).name
        /\ result.value.Event = ParseByMap(rawEvent).value
        /\ result.err = ParseByMap(rawEvent).err
        /\ result.invoked = ParseByMap(rawEvent).invoked
        /\ Cardinality(result.invoked) <= 1

\* the signature scanned second is matched and decoded by its own decoder
C26_Witness ==
    /\ Parsed
    /\ rawEvent.PrimaryKey = Event_Influence_Contracts_Crew_Crew_ApprovalForAll_Felt
    /\ result.err = "nil"
    /\ result.value.Name = Event_Influence_Contracts_Crew_Crew_ApprovalForAll
    /\ result.invoked = {"ParseInfluence_Contracts_Crew_Crew_ApprovalForAll"}

----------------------------------------------------------------------------
(* C27: after the context is cancelled, ContractEvents eventually returns
   and closes the output channel for every consumer behaviour, including a
   consumer that has stopped receiving from the unbuffered channel while the
   poller is in the middle of emitting a page. *)

C27_CancelledReturns == cancelled ~> (Stopped /\ closed = 1)

\* with a consumer that goes on receiving, cancellation ends the crawl
C27_ReceivingConsumer ==
    [](cmdPc # "stopped") => (cancelled ~> (Stopped /\ closed = 1))

----------------------------------------------------------------------------
(* C28: in a fixed-range crawl (toBlock not zero, fromBlock <= toBlock) that
   ends cleanly, every block n with fromBlock <= n <= toBlock was covered by
   at least one event query before ContractEvents returned, the single-block
   case fromBlock = toBlock included. *)

EndedCleanly == pc = "returned" /\ lastStep = "coldEnd" /\ ret = "nil"

C28_FixedRangeCovered ==
    EndedCleanly /\ toBlock # 0 /\ fromBlock <= toBlock =>
        \A n \in fromBlock .. toBlock : n \in covered

\* a range of more than one block is covered
C28_SeveralBlocksCovered ==
    EndedCleanly /\ toBlock # 0 /\ fromBlock < toBlock =>
        \A n \in fromBlock .. toBlock : n \in covered

----------------------------------------------------------------------------
(* C29: for every reported chain head and every confirmations value, head
   below confirmations included, the upper bound an open-ended crawl resolves
   never exceeds the reported chain head: the uint64 subtraction
   head - confirmations does not wrap around to a block beyond the head. *)

Resolves ==
    /\ toBlock = 0
    /\ pc = "select"
    /\ PollerStep
    /\ "BlockNumber" \in stepCalls'
    /\ lastStep' # "blockErr"

C29_BoundWithinHead == [][Resolves => UsedToBlock <= head]_vars

\* with the head at or above confirmations the bound is within the head
C29_HeadAtLeastConfirmations ==
    [][Resolves /\ head >= confirmations => UsedToBlock <= head]_vars

----------------------------------------------------------------------------
(* C30: for every event in a page returned by the provider, ContractEvents
   emits exactly one RawEvent whose PrimaryKey is the first element of that
   event's key list and whose block number, key list and data list are
   copied unchanged; this holds without crashing for every event the
   provider can return, one whose key list is empty included. *)

\* the i-th RawEvent sent is the copy of the i-th event of the page
Copied(i) ==
    /\ outChan[i].BlockNumber = eventsPage[i].BlockNumber
    /\ outChan[i].Keys = eventsPage[i].Keys
    /\ outChan[i].Parameters = eventsPage[i].Data
    /\ eventsPage[i].Keys # << >> => outChan[i].PrimaryKey = eventsPage[i].Keys[1]

C30_EveryEventEmitted ==
    /\ emitPc # "panicked"
    /\ emitPc = "done" => Len(outChan) = Len(eventsPage)
    /\ \A i \in 1 .. Len(outChan) : Copied(i)

\* the events that have a key are emitted as stated
C30_KeyedEventsEmitted ==
    /\ \A i \in 1 .. Len(outChan) : Copied(i)
    /\ (\A i \in 1 .. Len(eventsPage) : eventsPage[i].Keys # << >>) =>
          /\ emitPc # "panicked"
          /\ emitPc = "done" => Len(outChan) = Len(eventsPage)

=============================================================================

